---- MODULE Spec2Model ----
(***************************************************************************)
(* Cost functions of templatefitter/nll.py:                                *)
(*   AbstractTemplateCostFunction, SimplePoissonNegativeLogLikelihood,     *)
(*   AdvancedPoissonNegativeLogLikelihood.                                 *)
(*                                                                         *)
(* Numbers.  numpy's float64 results are modelled as exact extended reals: *)
(* a value is nan, +inf, -inf or the finite real                           *)
(*      lin + SUM_{<<a, c>> \in logs} c * ln(a)                            *)
(* with lin, a, c rationals <<numerator, denominator>> in lowest terms.    *)
(* ln is transcendental, so the logarithms are kept in closed form; two    *)
(* values with the same representation are the same real number.           *)
(***************************************************************************)
EXTENDS Integers, Sequences, FiniteSets, TLC

\* ------------------------------------------------------------ rationals

Abs(n) == IF n < 0 THEN -n ELSE n

RECURSIVE GCD(_, _)
GCD(a, b) == IF b = 0 THEN a ELSE GCD(b, a % b)

\* n/d in lowest terms with a positive denominator (d # 0).
RNorm(n, d) ==
    LET s == IF d < 0 THEN -1 ELSE 1
        g == GCD(Abs(n), Abs(d))
    IN  <<(s * n) \div g, (s * d) \div g>>

RInt(i) == <<i, 1>>
RAdd(p, q) == RNorm(p[1] * q[2] + q[1] * p[2], p[2] * q[2])
RMul(p, q) == RNorm(p[1] * q[1], p[2] * q[2])
RNeg(p) == <<-p[1], p[2]>>

\* ------------------------------------------------- float64 (extended reals)

NaN == [k |-> "nan", lin |-> <<0, 1>>, logs |-> {}]
PosInf == [k |-> "inf", lin |-> <<0, 1>>, logs |-> {}]
NegInf == [k |-> "-inf", lin |-> <<0, 1>>, logs |-> {}]
FinR(r) == [k |-> "fin", lin |-> r, logs |-> {}]
Fin(i) == FinR(RInt(i))

IsFinite(a) == a.k = "fin"
IsPure(a) == a.k = "fin" /\ a.logs = {}
IsZero(a) == IsPure(a) /\ a.lin[1] = 0
\* Sign of a pure rational or of an infinity.
Sgn(a) ==
    CASE a.k = "inf" -> 1
      [] a.k = "-inf" -> -1
      [] IsPure(a) -> IF a.lin[1] > 0 THEN 1 ELSE IF a.lin[1] < 0 THEN -1 ELSE 0

LogCoef(L, a) == IF \E e \in L : e[1] = a THEN (CHOOSE e \in L : e[1] = a)[2] ELSE <<0, 1>>
LogsAdd(L, M) ==
    LET args == {e[1] : e \in L \cup M}
        all == {<<a, RAdd(LogCoef(L, a), LogCoef(M, a))>> : a \in args}
    IN  {e \in all : e[2][1] # 0}
LogsScale(L, r) == IF r[1] = 0 THEN {} ELSE {<<e[1], RMul(e[2], r)>> : e \in L}

FAdd(a, b) ==
    CASE a.k = "nan" \/ b.k = "nan" -> NaN
      [] a.k = "inf" -> IF b.k = "-inf" THEN NaN ELSE PosInf
      [] a.k = "-inf" -> IF b.k = "inf" THEN NaN ELSE NegInf
      [] b.k = "inf" -> PosInf
      [] b.k = "-inf" -> NegInf
      [] OTHER -> [k |-> "fin", lin |-> RAdd(a.lin, b.lin), logs |-> LogsAdd(a.logs, b.logs)]

FNeg(a) ==
    CASE a.k = "nan" -> NaN
      [] a.k = "inf" -> NegInf
      [] a.k = "-inf" -> PosInf
      [] OTHER -> [k |-> "fin", lin |-> RNeg(a.lin), logs |-> LogsScale(a.logs, <<-1, 1>>)]

FSub(a, b) == FAdd(a, FNeg(b))

\* IEEE product; a product of two values that both carry logarithms never
\* occurs in the cost functions and is left undefined.
FMul(a, b) ==
    CASE a.k = "nan" \/ b.k = "nan" -> NaN
      [] ~IsFinite(a) /\ (~IsFinite(b) \/ IsPure(b)) ->
            IF Sgn(b) = 0 THEN NaN ELSE IF Sgn(a) * Sgn(b) > 0 THEN PosInf ELSE NegInf
      [] ~IsFinite(b) /\ IsPure(a) ->
            IF Sgn(a) = 0 THEN NaN ELSE IF Sgn(a) * Sgn(b) > 0 THEN PosInf ELSE NegInf
      [] IsPure(a) /\ IsFinite(b) ->
            [k |-> "fin", lin |-> RMul(a.lin, b.lin), logs |-> LogsScale(b.logs, a.lin)]
      [] IsFinite(a) /\ IsPure(b) ->
            [k |-> "fin", lin |-> RMul(a.lin, b.lin), logs |-> LogsScale(a.logs, b.lin)]

\* IEEE quotient of pure rationals or non-finite values (numpy warns, never raises).
FDiv(a, b) ==
    CASE a.k = "nan" \/ b.k = "nan" -> NaN
      [] ~IsFinite(a) /\ ~IsFinite(b) -> NaN
      [] ~IsFinite(a) -> IF Sgn(b) >= 0 THEN a ELSE FNeg(a)
      [] ~IsFinite(b) -> Fin(0)
      [] IsZero(b) -> IF Sgn(a) = 0 THEN NaN ELSE IF Sgn(a) > 0 THEN PosInf ELSE NegInf
      [] IsPure(a) /\ IsPure(b) -> FinR(RNorm(a.lin[1] * b.lin[2], a.lin[2] * b.lin[1]))

\* np.log of one element: log(0) = -inf and log(negative) = nan, with a
\* RuntimeWarning only.
FLog(a) ==
    CASE a.k = "nan" \/ a.k = "-inf" -> NaN
      [] a.k = "inf" -> PosInf
      [] IsPure(a) ->
            IF a.lin[1] < 0 THEN NaN
            ELSE IF a.lin[1] = 0 THEN NegInf
            ELSE IF a.lin = <<1, 1>> THEN Fin(0)
            ELSE [k |-> "fin", lin |-> <<0, 1>>, logs |-> {<<a.lin, <<1, 1>>>>}]

\* --------------------------------------------------------------- numpy

\* Results of a Python expression: a value or a raised exception.
Ok(v) == [tag |-> "ok", val |-> v]
Raise(e) == [tag |-> "raise", val |-> e]
IsOk(r) == r.tag = "ok"

Vec(s) == [i \in 1..Len(s) |-> Fin(s[i])]
Rows(M) == Len(M)
Cols(M) == IF Len(M) = 0 THEN 0 ELSE Len(M[1])

RECURSIVE FSumTo(_, _)
FSumTo(v, n) == IF n = 0 THEN Fin(0) ELSE FAdd(FSumTo(v, n - 1), v[n])
\* np.sum of a 1-D array.
NpSum(v) == FSumTo(v, Len(v))

\* v @ M for a 1-D v and a 2-D M: ValueError unless len(v) = M.shape[0].
NpMatmulVM(v, M) ==
    IF Len(v) # Rows(M) THEN Raise("ValueError")
    ELSE Ok([j \in 1..Cols(M) |-> NpSum([k \in 1..Len(v) |-> FMul(v[k], M[k][j])])])

\* v @ w for two 1-D arrays: ValueError unless the lengths agree.
NpMatmulVV(v, w) ==
    IF Len(v) # Len(w) THEN Raise("ValueError")
    ELSE Ok(NpSum([k \in 1..Len(v) |-> FMul(v[k], w[k])]))

\* Elementwise binary operation on 1-D arrays with numpy broadcasting.
Broadcastable(v, w) == Len(v) = Len(w) \/ Len(v) = 1 \/ Len(w) = 1
BLen(v, w) == IF Len(v) = 1 THEN Len(w) ELSE Len(v)
BAt(v, i) == IF Len(v) = 1 THEN v[1] ELSE v[i]
NpMul(v, w) == [i \in 1..BLen(v, w) |-> FMul(BAt(v, i), BAt(w, i))]
NpSub(v, w) == [i \in 1..BLen(v, w) |-> FSub(BAt(v, i), BAt(w, i))]
NpLog(v) == [i \in 1..Len(v) |-> FLog(v[i])]

\* ------------------------------------------------------ scipy.linalg

Zeros(R, C) == [p \in 1..R |-> [q \in 1..C |-> 0]]

RECURSIVE SumShape(_, _, _)
\* Sum of the row counts (axis = 1) or column counts (axis = 2) of arrs[1..n].
SumShape(arrs, n, axis) ==
    IF n = 0 THEN 0
    ELSE SumShape(arrs, n - 1, axis) + (IF axis = 1 THEN Rows(arrs[n]) ELSE Cols(arrs[n]))

RECURSIVE BlockDiagFill(_, _, _, _, _)
\* The copy loop of block_diag: out[r:r+rr, c:c+cc] = arrs[i]; r += rr; c += cc.
BlockDiagFill(arrs, i, out, r, c) ==
    IF i > Len(arrs) THEN out
    ELSE LET a == arrs[i]
             rr == Rows(a)
             cc == Cols(a)
             filled == [p \in 1..Rows(out) |-> [q \in 1..Cols(out) |->
                          IF p \in (r + 1)..(r + rr) /\ q \in (c + 1)..(c + cc)
                          THEN a[p - r][q - c] ELSE out[p][q]]]
         IN  BlockDiagFill(arrs, i + 1, filled, r + rr, c + cc)

Reverse(q) == [i \in 1..Len(q) |-> q[Len(q) + 1 - i]]

\* Variant: the blocks are laid out last to first.
BlockDiagReversed(arrs) ==
    IF Len(arrs) = 0 THEN <<<<>>>>
    ELSE BlockDiagFill(Reverse(arrs), 1,
                       Zeros(SumShape(arrs, Len(arrs), 1), SumShape(arrs, Len(arrs), 2)),
                       0, 0)

\* scipy.linalg.block_diag(*arrs) for 2-D inputs of any shapes; it validates
\* neither the count nor the squareness of its arguments, and block_diag()
\* of no argument is the 1 x 0 array.
BlockDiag(arrs) ==
    IF Len(arrs) = 0 THEN <<<<>>>>
    ELSE BlockDiagFill(arrs, 1,
                       Zeros(SumShape(arrs, Len(arrs), 1), SumShape(arrs, Len(arrs), 2)),
                       0, 0)

\* ------------------------------------------- collaborators of the cost function

None == [is_none |-> TRUE, val |-> <<>>]
Some(v) == [is_none |-> FALSE, val |-> v]

MatF(M) == [p \in 1..Len(M) |-> Vec(M[p])]

\* Nominal fraction of template k in bin i: nu_ik / sum_j nu_jk.
NominalFractions(tmpl) ==
    [k \in 1..tmpl.num_templates |->
        LET nu == Vec(tmpl.bin_counts[k])
        IN  [i \in 1..tmpl.num_bins |-> FDiv(nu[i], NpSum(nu))]]

\* Fractions with each bin scaled by (1 + theta_ik * epsilon_ik) and each
\* template renormalised; theta is flattened template-major, bin-minor.
AdjustedFractions(tmpl, theta) ==
    [k \in 1..tmpl.num_templates |->
        LET w == [i \in 1..tmpl.num_bins |->
                    FMul(Fin(tmpl.bin_counts[k][i]),
                         FAdd(Fin(1), FMul(Fin(theta[(k - 1) * tmpl.num_bins + i]),
                                           FinR(tmpl.rel_errors[k][i]))))]
        IN  [i \in 1..tmpl.num_bins |-> FDiv(w[i], NpSum(w))]]

\* The possible outcomes of templates.bin_fractions(arg), as a list.  What the collection
\* does with a nuisance vector of the wrong length is not specified: it may
\* raise, or ignore the vector.
BinFractionsOutcomes(tmpl, arg) ==
    IF arg.is_none THEN <<Ok(NominalFractions(tmpl))>>
    ELSE IF Len(arg.val) # tmpl.num_templates * tmpl.num_bins
         THEN <<Raise("ValueError"), Ok(NominalFractions(tmpl))>>
         ELSE <<Ok(AdjustedFractions(tmpl, arg.val))>>

\* ------------------------------------------------------------- nll.py

\* Python slices x[:n] and x[n:].
SliceTo(x, n) == SubSeq(x, 1, IF n < Len(x) THEN n ELSE Len(x))
SliceFrom(x, n) == IF n >= Len(x) THEN <<>> ELSE SubSeq(x, n + 1, Len(x))

Unconstructed ==
    [status |-> "unconstructed", cls |-> "none", _data |-> [bin_counts |-> <<>>],
     _templates |-> [template_ids |-> <<>>], _block_diag_inv_corr_mats |-> <<>>]

\* AbstractTemplateCostFunction.__init__
AbstractInit(c, hd, tmpl) ==
    [status |-> "constructed", cls |-> c, _data |-> hd, _templates |-> tmpl,
     _block_diag_inv_corr_mats |-> <<>>]

\* SimplePoissonNegativeLogLikelihood.__init__
SimpleInit(hd, tmpl) == AbstractInit("simple", hd, tmpl)

\* inv_corr_mats is num_templates square matrices of size num_bins.
WellFormedCorr(tmpl) ==
    /\ Len(tmpl.inv_corr_mats) = tmpl.num_templates
    /\ \A k \in 1..Len(tmpl.inv_corr_mats) :
         /\ Rows(tmpl.inv_corr_mats[k]) = tmpl.num_bins
         /\ \A p \in 1..Rows(tmpl.inv_corr_mats[k]) :
              Len(tmpl.inv_corr_mats[k][p]) = tmpl.num_bins

\* Variant: the constructor validates inv_corr_mats and fails on a malformed list.
AdvancedInitValidating(hd, tmpl) ==
    IF WellFormedCorr(tmpl)
    THEN [AbstractInit("advanced", hd, tmpl) EXCEPT
            !._block_diag_inv_corr_mats = BlockDiag(tmpl.inv_corr_mats)]
    ELSE [AbstractInit("advanced", hd, tmpl) EXCEPT !.status = "failed"]

\* AdvancedPoissonNegativeLogLikelihood.__init__
AdvancedInit(hd, tmpl) ==
    [AbstractInit("advanced", hd, tmpl) EXCEPT
        !._block_diag_inv_corr_mats = BlockDiag(tmpl.inv_corr_mats)]

\* np.concatenate of 1-D arrays; a None among them is a zero-dimensional
\* array, which concatenate rejects.
NpConcatenate(a, b) ==
    IF a.is_none \/ b.is_none THEN Raise("ValueError") ELSE Ok(Some(a.val \o b.val))

\* AbstractTemplateCostFunction.x0 (inherited by the simple variant)
AbstractX0(slf) == Ok(slf._templates.yield_values)

\* Variant: a missing part is skipped instead of handed to np.concatenate.
AdvancedX0SkipNone(slf) ==
    Ok(Some(slf._templates.yield_values.val \o slf._templates.nuiss_param_values.val))

\* AdvancedPoissonNegativeLogLikelihood.x0
AdvancedX0(slf) ==
    NpConcatenate(slf._templates.yield_values, slf._templates.nuiss_param_values)

X0(slf) == IF slf.cls = "advanced" THEN AdvancedX0(slf) ELSE AbstractX0(slf)

\* SimplePoissonNegativeLogLikelihood.param_names
SimpleParamNames(slf) ==
    LET ids == slf._templates.template_ids
    IN  [k \in 1..Len(ids) |-> "yield_" \o ids[k]]

RECURSIVE ChainFromIterable(_, _)
\* itertools.chain.from_iterable over lists[1..n].
ChainFromIterable(lists, n) ==
    IF n = 0 THEN <<>> ELSE ChainFromIterable(lists, n - 1) \o lists[n]

\* Variant: the nuisance names are generated bin-major, template-minor.
AdvancedParamNamesBinMajor(slf) ==
    LET ids == slf._templates.template_ids
        yields == [k \in 1..Len(ids) |-> "yield_" \o ids[k]]
        nuissance_params ==
            [j \in 1..slf._templates.num_bins |->
                [k \in 1..Len(ids) |-> "theta_" \o ids[k] \o "_" \o ToString(j - 1)]]
    IN  yields \o ChainFromIterable(nuissance_params, slf._templates.num_bins)

\* AdvancedPoissonNegativeLogLikelihood.param_names
AdvancedParamNames(slf) ==
    LET ids == slf._templates.template_ids
        yields == [k \in 1..Len(ids) |-> "yield_" \o ids[k]]
        nuissance_params ==
            [k \in 1..Len(ids) |->
                [j \in 1..slf._templates.num_bins |->
                    "theta_" \o ids[k] \o "_" \o ToString(j - 1)]]
    IN  yields \o ChainFromIterable(nuissance_params, Len(ids))

ParamNames(slf) ==
    IF slf.cls = "advanced" THEN AdvancedParamNames(slf) ELSE SimpleParamNames(slf)

\* Variants: the yields are read one place late; the nuisance parameters
\* start one place early.
AdvancedPoiShifted(slf, x) == SliceTo(SliceFrom(x, 1), slf._templates.num_templates)
AdvancedNuissParamsOffByOne(slf, x) == SliceFrom(x, slf._templates.num_templates - 1)

\* The split of the parameter vector at the head of __call__.
SimplePoi(slf, x) == x
AdvancedPoi(slf, x) == SliceTo(x, slf._templates.num_templates)
AdvancedNuissParams(slf, x) == SliceFrom(x, slf._templates.num_templates)

\* The argument __call__ hands to bin_fractions.
SimpleFractionsArg(slf, x) == None
AdvancedFractionsArg(slf, x) == Some(AdvancedNuissParams(slf, x))

\* exp_evts_per_bin = poi @ fractions
ExpEvtsPerBin(poi, fractions) == NpMatmulVM(Vec(poi), fractions)

\* Variant: the two terms are added instead of subtracted.
PoissonTermPlus(slf, exp_evts_per_bin) ==
    LET n == Vec(slf._data.bin_counts)
    IN  IF ~Broadcastable(n, exp_evts_per_bin) THEN Raise("ValueError")
        ELSE Ok(NpSum([i \in 1..BLen(n, exp_evts_per_bin) |->
                        FAdd(BAt(exp_evts_per_bin, i),
                             FMul(BAt(n, i), FLog(BAt(exp_evts_per_bin, i))))]))

\* Variant: expected yields that are not positive are floored at 1 before the
\* logarithm.
PoissonTermClamped(slf, exp_evts_per_bin) ==
    LET n == Vec(slf._data.bin_counts)
        floored == [i \in 1..Len(exp_evts_per_bin) |->
                      IF IsPure(exp_evts_per_bin[i]) /\ Sgn(exp_evts_per_bin[i]) <= 0
                      THEN Fin(1) ELSE exp_evts_per_bin[i]]
    IN  IF ~Broadcastable(n, exp_evts_per_bin) THEN Raise("ValueError")
        ELSE Ok(NpSum(NpSub(exp_evts_per_bin, NpMul(n, NpLog(floored)))))

\* poisson_term = np.sum(exp_evts_per_bin - bin_counts * np.log(exp_evts_per_bin))
PoissonTerm(slf, exp_evts_per_bin) ==
    LET n == Vec(slf._data.bin_counts)
    IN  IF ~Broadcastable(n, exp_evts_per_bin) THEN Raise("ValueError")
        ELSE Ok(NpSum(NpSub(exp_evts_per_bin, NpMul(n, NpLog(exp_evts_per_bin)))))

\* Variant: the nuisance vector is cut or zero-padded to the size of the
\* cached matrix instead of being rejected.
GaussTermTruncating(slf, nuiss_params) ==
    LET M == MatF(slf._block_diag_inv_corr_mats)
        fit == [i \in 1..Rows(M) |->
                  IF i <= Len(nuiss_params) THEN Fin(nuiss_params[i]) ELSE Fin(0)]
        left == NpMatmulVM(fit, M)
    IN  IF ~IsOk(left) THEN left
        ELSE LET quad == NpMatmulVV(left.val, [i \in 1..Cols(M) |->
                            IF i <= Len(nuiss_params) THEN Fin(nuiss_params[i]) ELSE Fin(0)])
             IN  IF ~IsOk(quad) THEN quad
                 ELSE Ok(FMul(FinR(<<1, 2>>), quad.val))

\* gauss_term = 0.5 * (nuiss_params @ block_diag_inv_corr_mats @ nuiss_params)
GaussTerm(slf, nuiss_params) ==
    LET left == NpMatmulVM(Vec(nuiss_params), MatF(slf._block_diag_inv_corr_mats))
    IN  IF ~IsOk(left) THEN left
        ELSE LET quad == NpMatmulVV(left.val, Vec(nuiss_params))
             IN  IF ~IsOk(quad) THEN quad
                 ELSE Ok(FMul(FinR(<<1, 2>>), quad.val))

\* SimplePoissonNegativeLogLikelihood.__call__ as a function of x
\* (bin_fractions() with no argument has a single outcome).
SimpleCall(slf, x) ==
    LET fr == BinFractionsOutcomes(slf._templates, SimpleFractionsArg(slf, x))[1]
        e == ExpEvtsPerBin(SimplePoi(slf, x), fr.val)
    IN  IF ~IsOk(e) THEN e ELSE PoissonTerm(slf, e.val)

\* ------------------------------------------------------------ scenarios

\* A vector may be up to MaxExtra entries longer than len(x0).
MaxExtra == 1

YieldVals == {0, 50, 100}
ThetaVals == {-1, 0, 1}
ConcYieldVals == {50}
ConcThetaVals == {0, 1}
Callers == {"c1", "c2"}

Identity3 == <<<<1, 0, 0>>, <<0, 1, 0>>, <<0, 0, 1>>>>
CorrA == <<<<2, 1>>, <<1, 2>>>>
CorrB == <<<<3, -1>>, <<-1, 1>>>>

\* Two templates, three bins: nominal fractions [[0.5,0.3,0.2],[0.2,0.3,0.5]].
TmplExample ==
    [template_ids |-> <<"sig", "bkg">>, num_templates |-> 2, num_bins |-> 3,
     yield_values |-> Some(<<100, 50>>),
     nuiss_param_values |-> Some(<<0, 0, 0, 0, 0, 0>>),
     bin_counts |-> <<<<5, 3, 2>>, <<2, 3, 5>>>>,
     rel_errors |-> <<<<<<1, 10>>, <<1, 10>>, <<1, 10>>>>, <<<<1, 10>>, <<1, 10>>, <<1, 10>>>>>>,
     inv_corr_mats |-> <<Identity3, Identity3>>]

\* Two templates, two bins, every bin covered.
Tmpl22 ==
    [template_ids |-> <<"sig", "bkg">>, num_templates |-> 2, num_bins |-> 2,
     yield_values |-> Some(<<50, 100>>),
     nuiss_param_values |-> Some(<<0, 0, 0, 0>>),
     bin_counts |-> <<<<1, 1>>, <<1, 3>>>>,
     rel_errors |-> <<<<<<1, 1>>, <<1, 2>>>>, <<<<2, 1>>, <<0, 1>>>>>>,
     inv_corr_mats |-> <<CorrA, CorrB>>]

\* No template covers the first bin.
Tmpl22Z == [Tmpl22 EXCEPT !.bin_counts = <<<<0, 2>>, <<0, 1>>>>]

\* One template, three bins, the first two not covered.
Tmpl13 ==
    [template_ids |-> <<"sig">>, num_templates |-> 1, num_bins |-> 3,
     yield_values |-> Some(<<100>>),
     nuiss_param_values |-> Some(<<0, 0, 0>>),
     bin_counts |-> <<<<0, 0, 2>>>>,
     rel_errors |-> <<<<<<1, 1>>, <<1, 1>>, <<1, 2>>>>>>,
     inv_corr_mats |-> <<Identity3>>]

\* A collection whose yields were never set.
Tmpl22NoYield == [Tmpl22 EXCEPT !.yield_values = None]

\* Collections whose inv_corr_mats is not num_templates square num_bins x
\* num_bins matrices: too few, not square, wrong sizes, none at all.
Tmpl22OneMat == [Tmpl22 EXCEPT !.inv_corr_mats = <<CorrA>>]
Tmpl22NonSquare ==
    [Tmpl22 EXCEPT !.inv_corr_mats = <<<<<<2, 1, 0>>, <<1, 2, 0>>>>, <<<<3>>, <<1>>>>>>]
Tmpl22WrongSize ==
    [Tmpl22 EXCEPT !.inv_corr_mats = <<<<<<2>>>>, <<<<2, 1, 0>>, <<1, 2, 0>>, <<0, 0, 1>>>>>>]
Tmpl22NoMat == [Tmpl22 EXCEPT !.inv_corr_mats = <<>>]

Hist(counts) == [bin_counts |-> counts]
Scenario(c, hd, tmpl) == [cls |-> c, hdata |-> hd, templates |-> tmpl]

WellFormedScenarios ==
    {Scenario("simple", Hist(<<60, 45, 45>>), TmplExample)}
    \cup {Scenario(c, Hist(<<3, 4>>), Tmpl22) : c \in {"simple", "advanced"}}
    \cup {Scenario(c, Hist(<<3, 0>>), Tmpl22Z) : c \in {"simple", "advanced"}}
    \cup {Scenario(c, Hist(<<5, 0, 3>>), Tmpl13) : c \in {"simple", "advanced"}}

Scenarios ==
    WellFormedScenarios
    \cup {Scenario(c, Hist(<<3, 4>>), Tmpl22NoYield) : c \in {"simple", "advanced"}}
    \cup {Scenario("advanced", Hist(<<3, 4>>), t) :
            t \in {Tmpl22OneMat, Tmpl22NonSquare, Tmpl22WrongSize, Tmpl22NoMat}}

ConcScenarios ==
    {Scenario(c, Hist(<<3, 4>>), Tmpl22) : c \in {"simple", "advanced"}}

\* len(x0) of a well-formed collection, by class.
NumParams(slf) ==
    IF slf.cls = "advanced"
    THEN slf._templates.num_templates + slf._templates.num_templates * slf._templates.num_bins
    ELSE slf._templates.num_templates

\* Vectors of length m: yields drawn from Y in the first num_templates places,
\* nuisance values drawn from Th after them.
VectorsOfLen(slf, m, Y, Th) ==
    LET T == slf._templates.num_templates
        a == IF m < T THEN m ELSE T
    IN  {y \o th : y \in [1..a -> Y], th \in [1..(m - a) -> Th]}

\* The parameter vectors a caller may pass: every length from lo up to
\* len(x0) + MaxExtra.
Inputs(slf, lo, Y, Th) ==
    UNION {VectorsOfLen(slf, m, Y, Th) : m \in lo..(NumParams(slf) + MaxExtra)}

\* ------------------------------------------------------------ state

VARIABLES
    hdata,      \* the data histogram handed to the constructor
    templates,  \* the template collection handed to the constructor
    cls,        \* the class the client instantiates
    self,       \* the cost function instance
    builds,     \* number of block_diag assemblies so far
    ctor_self,  \* the instance as the constructor left it
    frames      \* per caller: the operation in progress and its locals

vars == <<hdata, templates, cls, self, builds, ctor_self, frames>>

NoResult == [tag |-> "none", val |-> 0]

IdleFrame ==
    [op |-> "idle", pc |-> "idle", x |-> <<>>, poi |-> <<>>, nuiss_params |-> <<>>,
     bf_arg |-> None, exp_evts_per_bin |-> <<>>, poisson_term |-> Fin(0),
     gauss_term |-> Fin(0), ret |-> NoResult]

InitOf(S) ==
    /\ \E sc \in S : hdata = sc.hdata /\ templates = sc.templates /\ cls = sc.cls
    /\ self = Unconstructed
    /\ builds = 0
    /\ ctor_self = Unconstructed
    /\ frames = [t \in Callers |-> IdleFrame]

Init == InitOf(Scenarios)
InitConc == InitOf(ConcScenarios)

Done(f, r) == [f EXCEPT !.pc = "done", !.ret = r]

\* cost = Cls(hdata, templates)
Construct ==
    /\ self.status = "unconstructed"
    /\ self' = IF cls = "advanced" THEN AdvancedInit(hdata, templates)
               ELSE SimpleInit(hdata, templates)
    /\ builds' = IF cls = "advanced" THEN builds + 1 ELSE builds
    /\ ctor_self' = self'
    /\ UNCHANGED <<hdata, templates, cls, frames>>

\* cost.x0
ReadX0(t) ==
    /\ self.status = "constructed"
    /\ frames[t].op = "idle"
    /\ frames' = [frames EXCEPT ![t] = Done([IdleFrame EXCEPT !.op = "x0"], X0(self))]
    /\ UNCHANGED <<hdata, templates, cls, self, builds, ctor_self>>

\* cost.param_names
ReadParamNames(t) ==
    /\ self.status = "constructed"
    /\ frames[t].op = "idle"
    /\ frames' = [frames EXCEPT ![t] =
                    Done([IdleFrame EXCEPT !.op = "param_names"], Ok(ParamNames(self)))]
    /\ UNCHANGED <<hdata, templates, cls, self, builds, ctor_self>>

\* cost(x): entry and the split of x.
BeginCall(t, X) ==
    /\ self.status = "constructed"
    /\ frames[t].op = "idle"
    /\ \E x \in X :
         frames' = [frames EXCEPT ![t] =
            [IdleFrame EXCEPT
                !.op = "call", !.pc = "fractions", !.x = x,
                !.poi = IF self.cls = "advanced" THEN AdvancedPoi(self, x)
                        ELSE SimplePoi(self, x),
                !.nuiss_params = IF self.cls = "advanced" THEN AdvancedNuissParams(self, x)
                                 ELSE <<>>,
                !.bf_arg = IF self.cls = "advanced" THEN AdvancedFractionsArg(self, x)
                           ELSE SimpleFractionsArg(self, x)]]
    /\ UNCHANGED <<hdata, templates, cls, self, builds, ctor_self>>

\* cost(x): exp_evts_per_bin = poi @ self._templates.bin_fractions(...)
CallFractions(t) ==
    /\ frames[t].op = "call" /\ frames[t].pc = "fractions"
    /\ \E o \in DOMAIN BinFractionsOutcomes(self._templates, frames[t].bf_arg) :
         LET out == BinFractionsOutcomes(self._templates, frames[t].bf_arg)[o]
             e == IF IsOk(out) THEN ExpEvtsPerBin(frames[t].poi, out.val) ELSE out
         IN  frames' = [frames EXCEPT ![t] =
                IF IsOk(e) THEN [@ EXCEPT !.pc = "poisson", !.exp_evts_per_bin = e.val]
                ELSE Done(@, e)]
    /\ UNCHANGED <<hdata, templates, cls, self, builds, ctor_self>>

\* cost(x): the Poisson term; the simple variant returns it.
CallPoisson(t) ==
    /\ frames[t].op = "call" /\ frames[t].pc = "poisson"
    /\ LET p == PoissonTerm(self, frames[t].exp_evts_per_bin)
       IN  frames' = [frames EXCEPT ![t] =
              IF ~IsOk(p) THEN Done(@, p)
              ELSE IF self.cls = "advanced"
                   THEN [@ EXCEPT !.pc = "gauss", !.poisson_term = p.val]
                   ELSE Done([@ EXCEPT !.poisson_term = p.val], p)]
    /\ UNCHANGED <<hdata, templates, cls, self, builds, ctor_self>>

\* Variant: the evaluation reassembles the block-diagonal matrix and stores it.
CallGaussRebuild(t) ==
    /\ frames[t].op = "call" /\ frames[t].pc = "gauss"
    /\ self' = [self EXCEPT
                  !._block_diag_inv_corr_mats = BlockDiag(self._templates.inv_corr_mats)]
    /\ builds' = builds + 1
    /\ LET g == GaussTerm(self', frames[t].nuiss_params)
       IN  frames' = [frames EXCEPT ![t] =
              IF ~IsOk(g) THEN Done(@, g)
              ELSE Done([@ EXCEPT !.gauss_term = g.val], Ok(FAdd(@.poisson_term, g.val)))]
    /\ UNCHANGED <<hdata, templates, cls, ctor_self>>

\* cost(x), advanced variant: the Gaussian term and the returned sum.
CallGauss(t) ==
    /\ frames[t].op = "call" /\ frames[t].pc = "gauss"
    /\ LET g == GaussTerm(self, frames[t].nuiss_params)
       IN  frames' = [frames EXCEPT ![t] =
              IF ~IsOk(g) THEN Done(@, g)
              ELSE Done([@ EXCEPT !.gauss_term = g.val], Ok(FAdd(@.poisson_term, g.val)))]
    /\ UNCHANGED <<hdata, templates, cls, self, builds, ctor_self>>

\* The caller drops the result and is free for its next operation.
Release(t) ==
    /\ frames[t].pc = "done"
    /\ frames' = [frames EXCEPT ![t] = IdleFrame]
    /\ UNCHANGED <<hdata, templates, cls, self, builds, ctor_self>>

\* One caller, every vector of every length up to len(x0) + MaxExtra.
Next ==
    \/ Construct
    \/ ReadX0("c1")
    \/ ReadParamNames("c1")
    \/ BeginCall("c1", Inputs(self, 0, YieldVals, ThetaVals))
    \/ CallFractions("c1")
    \/ CallPoisson("c1")
    \/ CallGauss("c1")
    \/ Release("c1")

Spec == Init /\ [][Next]_vars

\* Two callers evaluating the same instance concurrently, with vectors whose
\* length is off by at most one.
NextConc ==
    \E t \in Callers :
        \/ Construct
        \/ ReadX0(t)
        \/ ReadParamNames(t)
        \/ BeginCall(t, Inputs(self, NumParams(self) - 1, ConcYieldVals, ConcThetaVals))
        \/ CallFractions(t)
        \/ CallPoisson(t)
        \/ CallGauss(t)
        \/ Release(t)

SpecConc == InitConc /\ [][NextConc]_vars

\* ------------------------------------------------------------ properties

\* The data model of a template collection: one yield per template, one
\* nuisance value per template and bin, num_templates square matrices.
WellFormedCollection(tmpl) ==
    /\ Len(tmpl.template_ids) = tmpl.num_templates
    /\ ~tmpl.yield_values.is_none
    /\ Len(tmpl.yield_values.val) = tmpl.num_templates
    /\ ~tmpl.nuiss_param_values.is_none
    /\ Len(tmpl.nuiss_param_values.val) = tmpl.num_templates * tmpl.num_bins
    /\ WellFormedCorr(tmpl)

CallDone(t) == frames[t].op = "call" /\ frames[t].pc = "done"
\* The evaluation got past bin_fractions and the vector-matrix product.
ExpComputed(t) == Len(frames[t].exp_evts_per_bin) = self._templates.num_bins
NT == self._templates.num_templates
NB == self._templates.num_bins

\* C1: on an instance over a well-formed collection, an evaluation whose
\* vector is shorter or longer than len(x0) ends in an error, in both
\* variants, whatever bin_fractions does with the ill-sized vector.
C1_LengthMismatchRejected ==
    \A t \in Callers :
        (/\ CallDone(t)
         /\ WellFormedCollection(self._templates)
         /\ IsOk(X0(self))
         /\ Len(frames[t].x) # Len(X0(self).val.val))
        => frames[t].ret.tag = "raise"

\* An over-long vector whose evaluation got through the Poisson term
\* (bin_fractions ignored the ill-sized nuisance vector) and was rejected.
C1_Witness ==
    \E t \in Callers :
        /\ CallDone(t) /\ self.cls = "advanced"
        /\ WellFormedCollection(self._templates)
        /\ Len(frames[t].x) > Len(X0(self).val.val)
        /\ ExpComputed(t)
        /\ frames[t].ret.tag = "raise"

\* C2: param_names has the length of x0; place k is "yield_<id k>" and, for
\* the advanced variant, place num_templates + k*num_bins + i is
\* "theta_<id k>_<i>", i counted from zero.
C2_NamesAlignedWithX0 ==
    \A t \in Callers :
        (/\ frames[t].op = "param_names" /\ frames[t].pc = "done"
         /\ WellFormedCollection(self._templates))
        => LET names == frames[t].ret.val
               ids == self._templates.template_ids
           IN  /\ frames[t].ret.tag = "ok"
               /\ IsOk(X0(self))
               /\ ~X0(self).val.is_none
               /\ Len(names) = Len(X0(self).val.val)
               /\ \A k \in 0..(NT - 1) : names[k + 1] = "yield_" \o ids[k + 1]
               /\ self.cls = "simple" => Len(names) = NT
               /\ self.cls = "advanced" =>
                    \A k \in 0..(NT - 1) : \A i \in 0..(NB - 1) :
                        names[NT + k * NB + i + 1]
                            = "theta_" \o ids[k + 1] \o "_" \o ToString(i)

C2_Witness ==
    \E t \in Callers :
        /\ frames[t].op = "param_names" /\ frames[t].pc = "done"
        /\ self.cls = "advanced" /\ WellFormedCollection(self._templates)
        /\ Len(frames[t].ret.val) = 6
        /\ frames[t].ret.val[5] = "theta_bkg_0"

\* C3: whatever the callers do, the instance keeps the data reference, the
\* template reference and the cached matrix the constructor gave it, and
\* the matrix is assembled once (never by an evaluation).
C3_EvaluationLeavesInstanceAlone ==
    self.status = "constructed" =>
        /\ self = ctor_self
        /\ self._data = hdata
        /\ self._templates = templates
        /\ builds = (IF self.cls = "advanced" THEN 1 ELSE 0)
        /\ self.cls = "advanced" =>
             self._block_diag_inv_corr_mats = BlockDiag(templates.inv_corr_mats)

\* Two evaluations of the advanced instance with different vectors overlap:
\* one has returned a value while the other is inside the Gaussian term.
C3_Witness ==
    /\ self.cls = "advanced"
    /\ frames["c1"].op = "call" /\ frames["c1"].pc = "gauss"
    /\ CallDone("c2") /\ frames["c2"].ret.tag = "ok"
    /\ ExpComputed("c2")
    /\ frames["c1"].x # frames["c2"].x

\* C4 as claimed: a malformed inv_corr_mats makes the construction fail.
C4_MalformedCorrFailsConstruction ==
    (cls = "advanced" /\ ~WellFormedCorr(templates)) => self.status # "constructed"

BlockDiagShapeOk(slf) ==
    /\ Rows(slf._block_diag_inv_corr_mats) = slf._templates.num_templates * slf._templates.num_bins
    /\ Cols(slf._block_diag_inv_corr_mats) = slf._templates.num_templates * slf._templates.num_bins

\* C4 amended: the advanced constructor always succeeds; the cache has the
\* summed shape of the blocks; a malformed list shows, as a shape error, only
\* in the evaluation of a right-length vector and only when the assembled
\* matrix is not (T*B) x (T*B).
C4_MalformedCorrSurfacesAtEvaluation ==
    (cls = "advanced" /\ self.status # "unconstructed") =>
        /\ self.status = "constructed"
        /\ Len(templates.inv_corr_mats) > 0 =>
             /\ Rows(self._block_diag_inv_corr_mats)
                  = SumShape(templates.inv_corr_mats, Len(templates.inv_corr_mats), 1)
             /\ Cols(self._block_diag_inv_corr_mats)
                  = SumShape(templates.inv_corr_mats, Len(templates.inv_corr_mats), 2)
        /\ \A t \in Callers :
             (CallDone(t) /\ Len(frames[t].x) = NT + NT * NB)
             => (frames[t].ret.tag = "raise" <=> ~BlockDiagShapeOk(self))

\* A non-square list whose blocks add up to 4 x 4: constructed, and an
\* evaluation has returned a value.
C4_Witness ==
    \E t \in Callers :
        /\ cls = "advanced" /\ ~WellFormedCorr(templates)
        /\ self.status = "constructed"
        /\ CallDone(t) /\ Len(frames[t].x) = NT + NT * NB
        /\ frames[t].ret.tag = "ok"

ZeroVec(n) == [i \in 1..n |-> 0]

\* C5: the advanced variant at (y, 0, ..., 0) has a Gaussian term of zero and
\* the Poisson term, and so the value, of the simple variant at y, given
\* that bin_fractions of the zero vector is the nominal fraction matrix.
C5_ZeroNuisanceReduction ==
    \A t \in Callers :
        (/\ CallDone(t) /\ self.cls = "advanced"
         /\ WellFormedCollection(self._templates)
         /\ Len(frames[t].x) = NT + NT * NB
         /\ SliceFrom(frames[t].x, NT) = ZeroVec(NT * NB)
         /\ AdjustedFractions(self._templates, ZeroVec(NT * NB))
              = NominalFractions(self._templates))
        => LET simple == SimpleCall(SimpleInit(hdata, templates), SliceTo(frames[t].x, NT))
           IN  /\ frames[t].ret.tag = "ok"
               /\ simple.tag = "ok"
               /\ frames[t].gauss_term = Fin(0)
               /\ frames[t].poisson_term = simple.val
               /\ frames[t].ret.val = simple.val

C5_Witness ==
    \E t \in Callers :
        /\ CallDone(t) /\ self.cls = "advanced"
        /\ WellFormedCollection(self._templates)
        /\ frames[t].x = <<50, 100, 0, 0, 0, 0>>
        /\ frames[t].ret.tag = "ok"
        /\ frames[t].ret.val.k = "fin"
        /\ frames[t].ret.val.logs # {}

RECURSIVE ExpectedAt(_, _, _, _)
\* sum over templates 1..k of poi[k] * fractions[k][i]
ExpectedAt(poi, fractions, i, k) ==
    IF k = 0 THEN Fin(0)
    ELSE FAdd(ExpectedAt(poi, fractions, i, k - 1), FMul(Fin(poi[k]), fractions[k][i]))

RECURSIVE NllUpTo(_, _, _)
\* sum over bins 1..i of expected[i] - observed[i] * log(expected[i])
NllUpTo(expected, observed, i) ==
    IF i = 0 THEN Fin(0)
    ELSE FAdd(NllUpTo(expected, observed, i - 1),
              FSub(expected[i], FMul(Fin(observed[i]), FLog(expected[i]))))

\* C6: the simple variant takes the whole vector as yields, asks for the
\* nominal fractions, forms expected[i] = sum_k poi[k] * fractions[k][i] and
\* returns sum_i (expected[i] - observed[i] * log(expected[i])); the
\* fractions [[.5,.3,.2],[.2,.3,.5]] with yields [100, 50] give [60, 45, 45].
C6_SimpleValue ==
    \A t \in Callers :
        (CallDone(t) /\ self.cls = "simple" /\ Len(frames[t].x) = NT)
        => LET f == frames[t]
               expected == [i \in 1..NB |->
                              ExpectedAt(f.x, NominalFractions(self._templates), i, NT)]
           IN  /\ f.poi = f.x
               /\ f.bf_arg = None
               /\ f.exp_evts_per_bin = expected
               /\ f.ret.tag = "ok"
               /\ f.ret.val = NllUpTo(expected, self._data.bin_counts, NB)
               /\ (templates = TmplExample /\ f.x = <<100, 50>>)
                    => f.exp_evts_per_bin = <<Fin(60), Fin(45), Fin(45)>>

C6_Witness ==
    \E t \in Callers :
        /\ CallDone(t) /\ self.cls = "simple"
        /\ templates = TmplExample /\ frames[t].x = <<100, 50>>
        /\ frames[t].ret.tag = "ok"
        /\ frames[t].ret.val.lin = <<150, 1>>
        /\ frames[t].ret.val.logs = {<<<<60, 1>>, <<-60, 1>>>>, <<<<45, 1>>, <<-90, 1>>>>}

\* Some bin that no template covers has an expected yield of 0 and a
\* positive observed count, in an evaluation of a right-length vector.
EmptyBinObserved(t) ==
    /\ CallDone(t) /\ WellFormedCollection(self._templates)
    /\ Len(frames[t].x) = NumParams(self)
    /\ ExpComputed(t)
    /\ \E i \in 1..NB :
         /\ IsZero(frames[t].exp_evts_per_bin[i])
         /\ self._data.bin_counts[i] > 0
         /\ \A k \in 1..NT : self._templates.bin_counts[k][i] = 0

\* C7 as claimed: such an evaluation returns positive infinity.
C7_EmptyBinGivesPosInf ==
    \A t \in Callers : EmptyBinObserved(t) => frames[t].ret = Ok(PosInf)

\* The term expected - observed * log(expected) of bin i is NaN.
TermIsNaN(t, i) ==
    LET e == frames[t].exp_evts_per_bin[i]
    IN  ~(IsPure(e) /\ (Sgn(e) > 0 \/ (Sgn(e) = 0 /\ self._data.bin_counts[i] > 0)))

\* C7 amended: such an evaluation raises nothing and clamps nothing; it
\* returns positive infinity unless the term of some bin is NaN (expected 0
\* with observed 0, or a negative or non-finite expected yield), and NaN then.
C7_EmptyBinGivesPosInfOrNaN ==
    \A t \in Callers :
        EmptyBinObserved(t) =>
            /\ frames[t].ret.tag = "ok"
            /\ IF \E j \in 1..NB : TermIsNaN(t, j)
               THEN frames[t].ret.val = NaN
               ELSE frames[t].ret.val = PosInf

C7_Witness ==
    \E t \in Callers : EmptyBinObserved(t) /\ frames[t].ret = Ok(PosInf)

X0Done(t) == frames[t].op = "x0" /\ frames[t].pc = "done"

\* C8 as claimed: x0 of either variant fails when the yields are missing.
C8_X0FailsOnMissingYields ==
    \A t \in Callers :
        (X0Done(t) /\ self._templates.yield_values.is_none)
        => frames[t].ret.tag = "raise"

\* C8 amended: with the yields missing, x0 of the advanced variant fails
\* (np.concatenate rejects the None); x0 of the simple variant returns the
\* collection's yield_values as it is, the missing value included.
C8_X0OnMissingYields ==
    \A t \in Callers :
        X0Done(t) =>
            /\ (self.cls = "advanced" /\ self._templates.yield_values.is_none)
                 => frames[t].ret.tag = "raise"
            /\ self.cls = "simple" => frames[t].ret = Ok(self._templates.yield_values)

C8_Witness ==
    \E t \in Callers :
        /\ X0Done(t) /\ self.cls = "advanced"
        /\ self._templates.yield_values.is_none
        /\ frames[t].ret.tag = "raise"

RECURSIVE QuadSum(_, _, _, _)
\* sum over the first n pairs (i, j) of 1..B x 1..B, row-major, of
\* u[i] * M[i][j] * u[j]
QuadSum(u, M, B, n) ==
    IF n = 0 THEN 0
    ELSE LET i == ((n - 1) \div B) + 1
             j == ((n - 1) % B) + 1
         IN  QuadSum(u, M, B, n - 1) + u[i] * M[i][j] * u[j]

RECURSIVE SumOver(_, _)
SumOver(f, n) == IF n = 0 THEN 0 ELSE SumOver(f, n - 1) + f[n]

\* C9: the cached matrix of a well-formed list is (T*B) x (T*B) with entry
\* (k*B + i, l*B + j) equal to M_k[i][j] if k = l and 0 otherwise, and the
\* Gaussian term is half the sum over templates of theta_k^T M_k theta_k.
C9_BlockDiagonalCache ==
    (self.status = "constructed" /\ self.cls = "advanced"
        /\ WellFormedCollection(self._templates))
    => LET bd == self._block_diag_inv_corr_mats
           M == self._templates.inv_corr_mats
       IN  /\ Rows(bd) = NT * NB
           /\ \A p \in 1..Rows(bd) : Len(bd[p]) = NT * NB
           /\ \A k \in 0..(NT - 1) : \A l \in 0..(NT - 1) :
                \A i \in 0..(NB - 1) : \A j \in 0..(NB - 1) :
                    bd[k * NB + i + 1][l * NB + j + 1]
                        = (IF k = l THEN M[k + 1][i + 1][j + 1] ELSE 0)
           /\ \A t \in Callers :
                (CallDone(t) /\ frames[t].ret.tag = "ok")
                => LET th == frames[t].nuiss_params
                       per == [k \in 1..NT |->
                                 QuadSum(SubSeq(th, (k - 1) * NB + 1, k * NB),
                                         M[k], NB, NB * NB)]
                   IN  frames[t].gauss_term = FinR(RNorm(SumOver(per, NT), 2))

\* Nuisance parameters of both templates are non-zero and the two blocks
\* differ; the Gaussian term came out as 9/2.
C9_Witness ==
    \E t \in Callers :
        /\ self.cls = "advanced" /\ templates = Tmpl22
        /\ CallDone(t) /\ frames[t].ret.tag = "ok"
        /\ frames[t].nuiss_params = <<1, 1, 1, 0>>
        /\ frames[t].gauss_term = FinR(<<9, 2>>)

\* C10: the advanced variant splits x at num_templates, hands the same
\* nuisance vector to bin_fractions and to the Gaussian form, and
\* x[T + k*B + i], named theta_<id k>_<i>, meets row and column i of M_k.
C10_SplitAndOrdering ==
    \A t \in Callers :
        (/\ CallDone(t) /\ self.cls = "advanced"
         /\ WellFormedCollection(self._templates)
         /\ Len(frames[t].x) = NT + NT * NB)
        => LET f == frames[t]
               M == self._templates.inv_corr_mats
               twice == SumOver(
                   [n \in 1..(NT * NB * NB) |->
                       LET k == (n - 1) \div (NB * NB)
                           i == ((n - 1) % (NB * NB)) \div NB
                           j == (n - 1) % NB
                       IN  f.x[NT + k * NB + i + 1] * M[k + 1][i + 1][j + 1]
                             * f.x[NT + k * NB + j + 1]],
                   NT * NB * NB)
           IN  /\ f.poi = [k \in 1..NT |-> f.x[k]]
               /\ f.nuiss_params = [n \in 1..(NT * NB) |-> f.x[NT + n]]
               /\ f.bf_arg = Some(f.nuiss_params)
               /\ f.ret.tag = "ok"
               /\ f.gauss_term = FinR(RNorm(twice, 2))
               /\ \A k \in 0..(NT - 1) : \A i \in 0..(NB - 1) :
                    ParamNames(self)[NT + k * NB + i + 1]
                        = "theta_" \o self._templates.template_ids[k + 1]
                            \o "_" \o ToString(i)

\* Only the second bin of the second template is pulled: x[6] = theta_bkg_1
\* meets CorrB[2][2] = 1, so the Gaussian term is 1/2.
C10_Witness ==
    \E t \in Callers :
        /\ CallDone(t) /\ self.cls = "advanced" /\ templates = Tmpl22
        /\ frames[t].x = <<50, 100, 0, 0, 0, 1>>
        /\ frames[t].bf_arg = Some(<<0, 0, 0, 1>>)
        /\ frames[t].gauss_term = FinR(<<1, 2>>)
        /\ frames[t].ret.tag = "ok"

====
